---------------------------- MODULE Spec2Model ----------------------------
(***************************************************************************)
(* Model of btf_helper/btfzip.py: class Btfzip, an index from angle tuples *)
(* (tl, pl, tv, pv) to the entries of a zip archive, built from the        *)
(* entries' filenames.                                                     *)
(*                                                                         *)
(* Strings are sequences of one-character strings, so that split, slicing  *)
(* and float parsing are computed character by character as Python does.   *)
(* A float is the pair <<m, k>> standing for m * 10^(-k), normalised (no   *)
(* trailing zero in the fraction, zero is <<0, 0>>): two literals denote   *)
(* equal Python floats iff their pairs are equal, for the short decimal    *)
(* literals of the model ("10" and "10.0" are both <<10, 0>>).             *)
(***************************************************************************)
EXTENDS Integers, Sequences, FiniteSets, TLC

VARIABLES
  zip_filepath,   \* self.zip_filepath
  namelist,       \* self.__z.namelist(): the archive's entry paths
  file_ext,       \* constructor argument file_ext
  angle_sep,      \* constructor argument angle_sep
  result,         \* how __init__ ended: "pending", "ok" or the exception type
  exc,            \* the arguments of the exception __init__ raised
  angles_vs_filepath_dict,           \* self.__angles_vs_filepath_dict
  angles_set,     \* self.angles_set
  stderr,         \* the lines printed to sys.stderr
  parsed,         \* the calls of _filename_to_angles made by __init__, in order
  ncalls,         \* number of angles_to_image calls made so far
  last,           \* the outcome of the latest angles_to_image call
  nopened,        \* number of archive streams opened by angles_to_image
  p_in,           \* arguments of a direct call of the static parser
  p_out           \* what that call returned or raised

vars == <<zip_filepath, namelist, file_ext, angle_sep, result, exc, angles_vs_filepath_dict,
          angles_set, stderr, parsed, ncalls, last, nopened, p_in, p_out>>

------------------------------------------------------------------------------
(* Bounds of the model *)

\* largest number of entries in the archive
MaxEntries == 2
\* largest number of angles_to_image calls in one behaviour
MaxCalls == 2

(* Program constants *)

\* filename.split("/")[-1][:-4]: the number of characters sliced off
SuffixLen == 4
\* angles[i][2:]: the number of label characters sliced off
LabelLen == 2

------------------------------------------------------------------------------
(* Python string primitives *)

\* None, as a value no path equals (a path holds single characters)
None == <<"None">>

\* str.endswith
EndsWith(s, suffix) ==
  /\ Len(suffix) <= Len(s)
  /\ SubSeq(s, Len(s) - Len(suffix) + 1, Len(s)) = suffix

\* s[:-n] for n > 0
DropLast(s, n) == SubSeq(s, 1, Len(s) - n)

\* s[n:]
DropFirst(s, n) == SubSeq(s, n + 1, Len(s))

RECURSIVE SplitFrom(_, _, _, _)
SplitFrom(s, sep, i, cur) ==
  IF i > Len(s) THEN <<cur>>
  ELSE IF i + Len(sep) - 1 <= Len(s) /\ SubSeq(s, i, i + Len(sep) - 1) = sep
       THEN <<cur>> \o SplitFrom(s, sep, i + Len(sep), <<>>)
       ELSE SplitFrom(s, sep, i + 1, Append(cur, s[i]))

\* str.split(sep): the tokens, or ValueError("empty separator")
Split(s, sep) ==
  IF sep = <<>> THEN [err |-> "ValueError", toks |-> <<>>]
  ELSE [err |-> "none", toks |-> SplitFrom(s, sep, 1, <<>>)]

\* str.strip() as float() applies it (the model's only whitespace is " ")
RECURSIVE Strip(_)
Strip(s) ==
  IF s = <<>> THEN s
  ELSE IF s[1] = " " THEN Strip(Tail(s))
  ELSE IF s[Len(s)] = " " THEN Strip(DropLast(s, 1))
  ELSE s

IsDigit(c) == c \in {"0", "1", "2", "3", "4", "5", "6", "7", "8", "9"}

DigitVal(c) ==
  CASE c = "0" -> 0 [] c = "1" -> 1 [] c = "2" -> 2 [] c = "3" -> 3
    [] c = "4" -> 4 [] c = "5" -> 5 [] c = "6" -> 6 [] c = "7" -> 7
    [] c = "8" -> 8 [] c = "9" -> 9

RECURSIVE DigitsToNat(_)
DigitsToNat(s) ==
  IF s = <<>> THEN 0
  ELSE 10 * DigitsToNat(DropLast(s, 1)) + DigitVal(s[Len(s)])

AllDigits(s) == \A i \in 1..Len(s) : IsDigit(s[i])

\* m * 10^(-k) in normal form
RECURSIVE Normalize(_, _)
Normalize(m, k) ==
  IF m = 0 THEN <<0, 0>>
  ELSE IF k > 0 /\ m % 10 = 0 THEN Normalize(m \div 10, k - 1)
  ELSE IF k < 0 THEN Normalize(m * 10, k + 1)
  ELSE <<m, k>>

IsSign(c) == c \in {"+", "-"}

\* the index of the first character of s that is in chars, Len(s) + 1 if none
FirstIndex(s, chars) ==
  IF \E i \in 1..Len(s) : s[i] \in chars
  THEN CHOOSE i \in 1..Len(s) : s[i] \in chars /\ \A j \in 1..(i - 1) : s[j] \notin chars
  ELSE Len(s) + 1

\* an underscore is allowed between two digits only
UnderscoresOK(t) ==
  \A i \in 1..Len(t) :
    t[i] = "_" => /\ 1 < i /\ i < Len(t)
                  /\ IsDigit(t[i - 1]) /\ IsDigit(t[i + 1])

Signed(neg, n) == IF neg THEN 0 - n ELSE n

NotAFloat == [ok |-> FALSE, val |-> <<0, 0>>]

\* integer part, fraction part and exponent digits
ParseFields(neg, ip, fp, hasexp, eneg, expo) ==
  IF /\ AllDigits(ip) /\ AllDigits(fp)
     /\ Len(ip) + Len(fp) >= 1
     /\ hasexp => (expo # <<>> /\ AllDigits(expo))
  THEN [ok |-> TRUE,
        val |-> Normalize(Signed(neg, DigitsToNat(ip \o fp)),
                          Len(fp) - Signed(eneg, DigitsToNat(expo)))]
  ELSE NotAFloat

HasSign(s) == s # <<>> /\ IsSign(s[1])
IsNegative(s) == s # <<>> /\ s[1] = "-"
Unsigned(s) == IF HasSign(s) THEN Tail(s) ELSE s

\* mantissa and exponent
ParseMantExp(neg, mant, hasexp, ex0) ==
  LET d == FirstIndex(mant, {"."})
  IN ParseFields(neg, SubSeq(mant, 1, d - 1), SubSeq(mant, d + 1, Len(mant)),
                 hasexp, IsNegative(ex0), Unsigned(ex0))

ParseUnsigned(neg, u) ==
  LET e == FirstIndex(u, {"e", "E"})
  IN ParseMantExp(neg, SubSeq(u, 1, e - 1), e <= Len(u), SubSeq(u, e + 1, Len(u)))

ParseSigned(u0) == ParseUnsigned(IsNegative(u0), Unsigned(u0))

ParseStripped(t) ==
  IF UnderscoresOK(t) THEN ParseSigned(SelectSeq(t, LAMBDA c : c # "_"))
  ELSE NotAFloat

\* float(s) for a str: [ok, val]. Decimal literals with an optional sign,
\* an optional exponent and underscores between digits; surrounding
\* whitespace is ignored. ("inf" and "nan" need letters the model's
\* filenames never put after a label.)
ParseFloat(s) == ParseStripped(Strip(s))

------------------------------------------------------------------------------
(* Btfzip._filename_to_angles *)

\* filename.split("/")[-1]
LastSegment(filename) ==
  LET segs == SplitFrom(filename, <<"/">>, 1, <<>>) IN segs[Len(segs)]

\* filename.split("/")[-1][:-4]
Stem(filename) == DropLast(LastSegment(filename), SuffixLen)

\* angles[i][2:]
StripLabel(tok) == DropFirst(tok, LabelLen)

\* What a call returns or raises: err is "none" or the exception type, msg
\* and angles are the exception's arguments, val is the returned tuple;
\* angles also keeps the local variable of that name for a call that returns.
Outcome(err, msg, angles, val) ==
  [err |-> err, msg |-> msg, angles |-> angles, val |-> val]

\* the tuple returned in another order
MakeTupleSwapped(tl, pl, tv, pv) == <<pl, tl, tv, pv>>

\* return (tl, pl, tv, pv)
MakeTuple(tl, pl, tv, pv) == <<tl, pl, tv, pv>>

\* a parser that compares each token's first two characters with its label
RECURSIVE ReadAnglesChecked(_, _, _)
ReadAnglesChecked(angles, i, acc) ==
  IF i > 4
  THEN Outcome("none", "", angles, MakeTuple(acc[1], acc[2], acc[3], acc[4]))
  ELSE IF Len(angles) < i
  THEN Outcome("IndexError", "list index out of range", <<>>, <<>>)
  ELSE IF \/ SubSeq(angles[i], 1, LabelLen)
             # <<<<"t", "l">>, <<"p", "l">>, <<"t", "v">>, <<"p", "v">>>>[i]
          \/ ~ParseFloat(StripLabel(angles[i])).ok
  THEN Outcome("ValueError", "invalid angle:", angles, <<>>)
  ELSE ReadAnglesChecked(angles, i + 1,
                         Append(acc, ParseFloat(StripLabel(angles[i])).val))

\* The try block: angles[0], angles[1], angles[2], angles[3] are read in
\* this order. A token that float() rejects raises ValueError, which is caught
\* and raised again as ValueError("invalid angle:", angles); a missing token
\* raises IndexError, which nothing catches.
RECURSIVE ReadAngles(_, _, _)
ReadAngles(angles, i, acc) ==
  IF i > 4
  THEN Outcome("none", "", angles, MakeTuple(acc[1], acc[2], acc[3], acc[4]))
  ELSE IF Len(angles) < i
  THEN Outcome("IndexError", "list index out of range", <<>>, <<>>)
  ELSE LET f == ParseFloat(StripLabel(angles[i]))
       IN IF ~f.ok
          THEN Outcome("ValueError", "invalid angle:", angles, <<>>)
          ELSE ReadAngles(angles, i + 1, Append(acc, f.val))

_filename_to_angles(filename, sep) ==
  LET sp == Split(Stem(filename), sep)
  IN IF sp.err # "none"
     THEN Outcome(sp.err, "empty separator", <<>>, <<>>)
     ELSE ReadAngles(sp.toks, 1, <<>>)

\* A call self._filename_to_angles(*args) of the static method, which has two
\* required positional parameters (filename, sep).
call_filename_to_angles(args) ==
  IF Len(args) # 2
  THEN Outcome("TypeError", "missing 1 required positional argument: 'sep'",
               <<>>, <<>>)
  ELSE _filename_to_angles(args[1], args[2])

------------------------------------------------------------------------------
(* Filenames of the model. A filename is rendered from a description: a    *)
(* directory prefix, four (or fewer) labelled literals, a separator and an *)
(* extension. Each literal carries the float it denotes, written down by   *)
(* hand, independently of ParseFloat.                                      *)

Lit(text, val) == [text |-> text, val |-> val]

L0     == Lit(<<"0">>, <<0, 0>>)
L5     == Lit(<<"5">>, <<5, 0>>)
L10    == Lit(<<"1", "0">>, <<10, 0>>)
L10p0  == Lit(<<"1", "0", ".", "0">>, <<10, 0>>)
L20p25 == Lit(<<"2", "0", ".", "2", "5">>, <<2025, 2>>)
L11p5  == Lit(<<"1", "1", ".", "5">>, <<115, 1>>)
L0p5   == Lit(<<"0", ".", "5">>, <<5, 1>>)
\* not a float literal
Lx     == Lit(<<"x">>, <<>>)

TL == <<"t", "l">>
PL == <<"p", "l">>
TV == <<"t", "v">>
PV == <<"p", "v">>
Labels == <<TL, PL, TV, PV>>

Space      == <<" ">>
Underscore == <<"_">>
Exr        == <<".", "e", "x", "r">>
Png        == <<".", "p", "n", "g">>
Tiff       == <<".", "t", "i", "f", "f">>
NoDir      == <<>>
SubDir     == <<"a", " ", "b", "/">>

Desc(dir, labs, lits, sep, ext) ==
  [dir |-> dir, labs |-> labs, lits |-> lits, sep |-> sep, ext |-> ext]

RECURSIVE Join(_, _)
Join(toks, sep) ==
  IF toks = <<>> THEN <<>>
  ELSE IF Len(toks) = 1 THEN toks[1]
  ELSE toks[1] \o sep \o Join(Tail(toks), sep)

Tokens(d) == [i \in 1..Len(d.lits) |-> d.labs[i] \o d.lits[i].text]

Render(d) == d.dir \o Join(Tokens(d), d.sep) \o d.ext

\* the angle tuple a description denotes
Denoted(d) == [i \in 1..Len(d.lits) |-> d.lits[i].val]

------------------------------------------------------------------------------
(* The archives, configurations and lookup keys of the model *)

T0  == <<L0, L0, L0, L0>>
T1  == <<L20p25, L10, L11p5, L0>>
\* the same angles as T1, pl written "10.0"
T1b == <<L20p25, L10p0, L11p5, L0>>
T2  == <<L0, L0, L0, L0p5>>

Descs ==
  { Desc(NoDir,  Labels, T0,  Space,      Exr),
    Desc(SubDir, Labels, T0,  Space,      Exr),
    Desc(NoDir,  Labels, T1,  Space,      Exr),
    Desc(NoDir,  Labels, T1b, Space,      Exr),
    Desc(NoDir,  Labels, T1,  Underscore, Exr),
    Desc(NoDir,  Labels, T0,  Underscore, Exr),
    Desc(NoDir,  Labels, T0,  Space,      Tiff),
    Desc(NoDir,  Labels, T2,  Space,      Tiff),
    \* three tokens only
    Desc(NoDir,  Labels, <<L0, L0, L0>>,     Space, Exr),
    \* a token that is no float
    Desc(NoDir,  Labels, <<L0, L0, Lx, L0>>, Space, Exr),
    \* the four labels in another order
    Desc(NoDir,  <<PL, TL, TV, PV>>, <<L10, L20p25, L11p5, L0>>, Space, Exr),
    \* other two-character prefixes
    Desc(NoDir,  <<<<"a", "a">>, <<"b", "b">>, <<"c", "c">>, <<"d", "d">>>>,
         <<L5, L0, L0, L0>>, Space, Exr) }

\* an entry that is no image
Stray == <<"n", "o", "t", "e", "s", ".", "t", "x", "t">>

Universe == {Render(d) : d \in Descs} \cup {Stray}

Exts == {Exr, Tiff}
Seps == {Space, Underscore}

\* the tuples angles_to_image is asked for
Keys == { <<<<0, 0>>, <<0, 0>>, <<0, 0>>, <<0, 0>>>>,
          <<<<2025, 2>>, <<10, 0>>, <<115, 1>>, <<0, 0>>>>,
          <<<<10, 0>>, <<2025, 2>>, <<115, 1>>, <<0, 0>>>>,
          <<<<5, 0>>, <<5, 0>>, <<5, 0>>, <<5, 0>>>> }

\* the inputs of a direct call of the parser
ParserSeps == {Space, Underscore, <<"_", "_">>, <<".">>, <<"/">>, <<"0">>, <<>>}
ParserLits == {L0, L10, L10p0, L20p25, L11p5}
ParserDescs ==
  { Desc(dir, Labels, <<a, b, c, d>>, sep, ext) :
      dir \in {NoDir, SubDir}, a \in ParserLits, b \in ParserLits,
      c \in ParserLits, d \in ParserLits, sep \in ParserSeps,
      ext \in {Exr, Png} }

------------------------------------------------------------------------------
(* Sets, dicts and Counter *)

RECURSIVE Perms(_)
\* the orders in which a set may be iterated
Perms(S) ==
  IF S = {} THEN {<<>>}
  ELSE UNION { {<<x>> \o p : p \in Perms(S \ {x})} : x \in S }

EmptyDict == [k \in {} |-> <<>>]

\* d[k] = v
DictSet(d, k, v) == [x \in DOMAIN d \cup {k} |-> IF x = k THEN v ELSE d[x]]

\* d.get(k)
DictGet(d, k) == IF k \in DOMAIN d THEN d[k] ELSE None

\* x == "" in place of not x
FalsyEmptyOnly(x) == x = <<>>

\* not x, for x a str or None
Falsy(x) == x = None \/ x = <<>>

\* the number of times x occurs in seq
Count(seq, x) == Cardinality({i \in 1..Len(seq) : seq[i] = x})

\* Counter(seq).items(): the distinct elements in order of first occurrence,
\* each with its count
CounterItems(seq) ==
  LET firsts == SelectSeq([i \in 1..Len(seq) |-> i],
                          LAMBDA i : \A j \in 1..(i - 1) : seq[j] # seq[i])
  IN [n \in 1..Len(firsts) |-> <<seq[firsts[n]], Count(seq, seq[firsts[n]])>>]

------------------------------------------------------------------------------
(* Btfzip.__init__ *)

\* the extension filter left out
filepath_set_all(names, ext) == names

\* {path for path in self.__z.namelist() if path.endswith(file_ext)}
filepath_set(names, ext) == {path \in names : EndsWith(path, ext)}

CallRecord(args, out) == [args |-> args, out |-> out]

Returned == Outcome("none", "", <<>>, <<>>)

\* The dict comprehension over filepath_set, iterated in `order`: the first
\* call that raises ends it, and then nothing is assigned.
RECURSIVE BuildDict(_, _, _, _, _)
BuildDictStep(order, sep, i, d, calls, r) ==
  IF r.err # "none"
  THEN [out |-> r, d |-> EmptyDict,
        calls |-> Append(calls, CallRecord(<<order[i], sep>>, r))]
  ELSE BuildDict(order, sep, i + 1, DictSet(d, r.val, order[i]),
                 Append(calls, CallRecord(<<order[i], sep>>, r)))

BuildDict(order, sep, i, d, calls) ==
  IF i > Len(order) THEN [out |-> Returned, d |-> d, calls |-> calls]
  ELSE BuildDictStep(order, sep, i, d, calls,
                     call_filename_to_angles(<<order[i], sep>>))

\* [self._filename_to_angles(path) for path in filepath_set]
RECURSIVE angles_list(_, _, _, _)
angles_list_step(order, i, acc, calls, r) ==
  IF r.err # "none"
  THEN [out |-> r, list |-> <<>>,
        calls |-> Append(calls, CallRecord(<<order[i]>>, r))]
  ELSE angles_list(order, i + 1, Append(acc, r.val),
                  Append(calls, CallRecord(<<order[i]>>, r)))

angles_list(order, i, acc, calls) ==
  IF i > Len(order) THEN [out |-> Returned, list |-> acc, calls |-> calls]
  ELSE angles_list_step(order, i, acc, calls, call_filename_to_angles(<<order[i]>>))

\* the lines printed for the items of the Counter with counter > 1
Diagnostics(zip, items) ==
  LET dup == SelectSeq(items, LAMBDA it : it[2] > 1)
  IN [n \in 1..Len(dup) |->
        [archive |-> zip, counter |-> dup[n][2], angles |-> dup[n][1]]]

Attributes(res, e, d, aset, err, calls) ==
  [result |-> res, exc |-> e, angles_vs_filepath_dict |-> d, angles_set |-> aset,
   stderr |-> err, parsed |-> calls]

\* lines 61-70: the duplicates are counted and reported
ReportDuplicates(zip, d, al) ==
  IF al.out.err # "none"
  THEN Attributes(al.out.err, al.out, d, DOMAIN d, <<>>, al.calls)
  ELSE Attributes("RuntimeError",
                  Outcome("RuntimeError", "has duplicated conditions.", <<>>, <<>>),
                  d, DOMAIN d, Diagnostics(zip, CounterItems(al.list)), al.calls)

\* lines 54-70, b being what the dict comprehension came to
AfterBuild(zip, paths, order, b) ==
  IF b.out.err # "none"
  THEN Attributes(b.out.err, b.out, EmptyDict, {}, <<>>, b.calls)
  ELSE IF Cardinality(paths) # Cardinality(DOMAIN b.d)
  THEN ReportDuplicates(zip, b.d, angles_list(order, 1, <<>>, b.calls))
  ELSE Attributes("ok", Returned, b.d, DOMAIN b.d, <<>>, b.calls)

\* The whole constructor, with filepath_set iterated in `order` (a Python
\* set of str has no fixed iteration order; both loops see the same one).
InitOutcome(zip, names, ext, sep, order) ==
  AfterBuild(zip, filepath_set(names, ext), order,
             BuildDict(order, sep, 1, EmptyDict, <<>>))

Construct ==
  /\ result = "pending"
  /\ \E order \in Perms(filepath_set(namelist, file_ext)) :
       \E o \in {InitOutcome(zip_filepath, namelist, file_ext, angle_sep, order)} :
          /\ result' = o.result
          /\ exc' = o.exc
          /\ angles_vs_filepath_dict' = o.angles_vs_filepath_dict
          /\ angles_set' = o.angles_set
          /\ stderr' = o.stderr
          /\ parsed' = o.parsed
  /\ UNCHANGED <<zip_filepath, namelist, file_ext, angle_sep, ncalls, last,
                 nopened, p_in, p_out>>

------------------------------------------------------------------------------
(* Btfzip.angles_to_image *)

\* tv and pv exchanged in the key
key_swapped(tl, pl, tv, pv) == <<tl, pl, pv, tv>>

\* key = (tl, pl, tv, pv)
key(tl, pl, tv, pv) == <<tl, pl, tv, pv>>

\* What a call did: its arguments, the exception raised ("none" if it
\* returned) with its arguments, and the entry whose bytes were read.
CallOutcome(args, err, msg, read) ==
  [args |-> args, err |-> err, msg |-> msg, read |-> read]

\* lines 92-101, filepath being what the dict gave for the key k
Fetch(args, k, filepath) ==
  IF Falsy(filepath)
  THEN /\ last' = CallOutcome(args, "ValueError", <<k, zip_filepath>>, None)
       /\ nopened' = nopened
  ELSE IF filepath \notin namelist
  THEN /\ last' = CallOutcome(args, "KeyError", <<filepath>>, None)
       /\ nopened' = nopened
  ELSE /\ last' = CallOutcome(args, "none", <<>>, filepath)
       /\ nopened' = nopened + 1

\* dict.pop in place of dict.get
angles_to_image_pop(tl, pl, tv, pv) ==
  /\ result = "ok"
  /\ ncalls < MaxCalls
  /\ Fetch(<<tl, pl, tv, pv>>, key(tl, pl, tv, pv),
           DictGet(angles_vs_filepath_dict, key(tl, pl, tv, pv)))
  /\ angles_vs_filepath_dict' =
        [k \in DOMAIN angles_vs_filepath_dict \ {key(tl, pl, tv, pv)} |->
           angles_vs_filepath_dict[k]]
  /\ ncalls' = ncalls + 1
  /\ UNCHANGED <<zip_filepath, namelist, file_ext, angle_sep, result, exc,
                 angles_set, stderr, parsed, p_in, p_out>>

\* One call on a constructed object. The stream of the entry is opened,
\* read to its end and closed; the image returned is decoded from the bytes
\* of the entry `read`.
angles_to_image(tl, pl, tv, pv) ==
  /\ result = "ok"
  /\ ncalls < MaxCalls
  /\ Fetch(<<tl, pl, tv, pv>>, key(tl, pl, tv, pv),
           DictGet(angles_vs_filepath_dict, key(tl, pl, tv, pv)))
  /\ ncalls' = ncalls + 1
  /\ UNCHANGED <<zip_filepath, namelist, file_ext, angle_sep, result, exc,
                 angles_vs_filepath_dict, angles_set, stderr, parsed, p_in, p_out>>

Lookup == \E k \in Keys : angles_to_image(k[1], k[2], k[3], k[4])

------------------------------------------------------------------------------
(* Specifications *)

NoParse == Outcome("pending", "", <<>>, <<>>)
NoCall  == CallOutcome(<<>>, "none", <<>>, None)
NoDesc  == Desc(<<>>, <<>>, <<>>, <<>>, <<>>)

Idle ==
  /\ result = "pending"
  /\ exc = NoParse
  /\ angles_vs_filepath_dict = EmptyDict
  /\ angles_set = {}
  /\ stderr = <<>>
  /\ parsed = <<>>
  /\ ncalls = 0
  /\ last = NoCall
  /\ nopened = 0

\* An archive, and the arguments of the constructor
Init ==
  /\ zip_filepath = "Colorchecker.zip"
  /\ namelist \in {S \in SUBSET Universe : Cardinality(S) <= MaxEntries}
  /\ file_ext \in Exts
  /\ angle_sep \in Seps
  /\ Idle
  /\ p_in = NoDesc
  /\ p_out = NoParse

Next == Construct \/ Lookup

Spec == Init /\ [][Next]_vars

\* A direct call Btfzip._filename_to_angles(filename, sep)
ParseCall ==
  /\ p_out = NoParse
  /\ p_out' = _filename_to_angles(Render(p_in), p_in.sep)
  /\ UNCHANGED <<zip_filepath, namelist, file_ext, angle_sep, result, exc,
                 angles_vs_filepath_dict, angles_set, stderr, parsed, ncalls, last, nopened, p_in>>

InitParser ==
  /\ zip_filepath = "Colorchecker.zip"
  /\ namelist = {}
  /\ file_ext = Exr
  /\ angle_sep = Space
  /\ Idle
  /\ p_in \in ParserDescs
  /\ p_out = NoParse

NextParser == ParseCall

SpecParser == InitParser /\ [][NextParser]_vars

------------------------------------------------------------------------------
(* Vocabulary of the properties, stated on the descriptions of the entries *)
(* and not through the operators of the constructor.                       *)

Done == result # "pending"

\* p ends with suffix
HasSuffix(p, suffix) == \E n \in 0..Len(p) : SubSeq(p, n + 1, Len(p)) = suffix

\* the entries whose path ends with the configured extension
RetainedPaths == {p \in namelist : HasSuffix(p, file_ext)}

RetainedDescs == {d \in Descs : Render(d) \in RetainedPaths}

FourFloats(d) ==
  /\ Len(d.lits) = 4
  /\ \A i \in 1..4 : d.lits[i].val # <<>>

\* the entry is written with the configured separator and extension, and the
\* extension is what the parser slices off
Encoded(d) ==
  /\ d.sep = angle_sep
  /\ d.ext = file_ext
  /\ DropLast(Join(Tokens(d), d.sep) \o d.ext, SuffixLen) = Join(Tokens(d), d.sep)

\* every retained entry is a well-formed angle encoding
AllWellFormed ==
  /\ \A p \in RetainedPaths : \E d \in RetainedDescs : Render(d) = p
  /\ \A d \in RetainedDescs : Encoded(d) /\ FourFloats(d)

\* the retained entries denoting the tuple t
Denoting(t) == {d \in RetainedDescs : Denoted(d) = t}

DuplicatedTuples == {Denoted(d) : d \in {e \in RetainedDescs : Cardinality(Denoting(Denoted(e))) > 1}}

Range(f) == {f[k] : k \in DOMAIN f}

------------------------------------------------------------------------------
(* C1 *)

\* C1: when two or more retained entries parse to the same angle tuple,
\* construction fails with RuntimeError (the duplicate-condition error) and
\* with no other error kind, and no index is returned.
C1_DuplicatesRaiseRuntimeError ==
  (Done /\ AllWellFormed /\ DuplicatedTuples # {}) => result = "RuntimeError"

(* C2 *)

\* C2: when construction meets duplicated tuples, stderr holds exactly one
\* line per tuple that occurs more than once, with the archive, the tuple and
\* its occurrence count, and no other line.
C2_OneDiagnosticPerDuplicate ==
  (Done /\ AllWellFormed /\ DuplicatedTuples # {}) =>
     /\ Len(stderr) = Cardinality(DuplicatedTuples)
     /\ \A t \in DuplicatedTuples :
          \E i \in 1..Len(stderr) :
             stderr[i] = [archive |-> zip_filepath,
                          counter |-> Cardinality(Denoting(t)),
                          angles |-> t]

(* C3 *)

ParseOf(p) == call_filename_to_angles(<<p, angle_sep>>)

AllParseDistinct ==
  /\ \A p \in RetainedPaths : ParseOf(p).err = "none"
  /\ \A p, q \in RetainedPaths : p # q => ParseOf(p).val # ParseOf(q).val

\* C3: when the N retained entries parse to pairwise distinct tuples,
\* construction succeeds, angles_set has N elements, the index is a bijection
\* between the retained paths and the known tuples, and angles_to_image on a
\* known tuple does not fail and reads the entry that parses to that tuple.
C3_DistinctTuplesIndexed ==
  (Done /\ AllParseDistinct) =>
     /\ result = "ok"
     /\ Cardinality(angles_set) = Cardinality(RetainedPaths)
     /\ angles_set = DOMAIN angles_vs_filepath_dict
     /\ Range(angles_vs_filepath_dict) = RetainedPaths
     /\ \A p \in RetainedPaths : DictGet(angles_vs_filepath_dict, ParseOf(p).val) = p
     /\ (ncalls > 0 /\ last.args \in angles_set) =>
           /\ last.err = "none"
           /\ last.read \in RetainedPaths
           /\ ParseOf(last.read).val = last.args

C3_Witness ==
  /\ result = "ok"
  /\ Cardinality(RetainedPaths) = 2
  /\ Cardinality(angles_set) = 2
  /\ ncalls > 0
  /\ last.err = "none"
  /\ last.args \in angles_set

(* C4 *)

\* C4: on a constructed index, angles_to_image with a tuple that is not in
\* angles_set raises ValueError naming the tuple and the archive, opens no
\* stream and leaves the index as it was; a following call with a known
\* tuple succeeds.
C4_UnknownTupleRaisesValueError ==
  [][ ncalls' = ncalls + 1 =>
        /\ last'.args \notin angles_set =>
              /\ last'.err = "ValueError"
              /\ last'.msg = <<last'.args, zip_filepath>>
              /\ last'.read = None
              /\ nopened' = nopened
              /\ angles_vs_filepath_dict' = angles_vs_filepath_dict /\ angles_set' = angles_set /\ result' = "ok"
        /\ (last.err = "ValueError" /\ last'.args \in angles_set) =>
              /\ last'.err = "none"
              /\ last'.read = angles_vs_filepath_dict[last'.args]
              /\ nopened' = nopened + 1 ]_vars

C4_Witness ==
  /\ ncalls = 2
  /\ nopened = 1
  /\ last.err = "none"
  /\ last.args \in angles_set

(* C5 *)

\* C5: an entry whose path does not end with the configured extension is
\* never passed to the parser and never appears in the index, so it cannot
\* make construction fail; the index is built from exactly the entries whose
\* path ends with the extension.
C5_OnlyRetainedEntriesParsed ==
  Done =>
     /\ \A i \in 1..Len(parsed) : parsed[i].args[1] \in RetainedPaths
     /\ Range(angles_vs_filepath_dict) \subseteq RetainedPaths
     /\ result = "ok" => Range(angles_vs_filepath_dict) = RetainedPaths
     /\ result \in {"ValueError", "IndexError"} =>
           /\ parsed # <<>>
           /\ parsed[Len(parsed)].out.err = result
     /\ RetainedPaths = {} => result = "ok"

C5_Witness ==
  /\ result = "ok"
  /\ Stray \in namelist
  /\ Cardinality(namelist) = 2
  /\ Cardinality(angles_set) = 1

(* C6 *)

\* fewer than four tokens on the separator, or a token that is no float
\* after its label
Malformed(d) ==
  /\ d.sep = angle_sep
  /\ \/ Len(d.lits) < 4
     \/ \E i \in 1..Len(d.lits) : d.lits[i].val = <<>>

\* C6: a retained entry whose name is not the four-token angle encoding makes
\* construction fail with ValueError("invalid angle:", tokens).
C6_MalformedRaisesValueError ==
  (Done /\ \E d \in RetainedDescs : Malformed(d)) =>
     /\ result = "ValueError"
     /\ exc.msg = "invalid angle:"

(* C7 *)

\* C7: for every separator, parsing tl{a}{sep}pl{b}{sep}tv{c}{sep}pv{d}.ext,
\* alone or after a directory prefix, returns (a, b, c, d).
C7_ParseRecoversAngles ==
  p_out # NoParse => (p_out.err = "none" /\ p_out.val = Denoted(p_in))

\* the separator is not empty and holds no character that a label, a decimal
\* literal or the path syntax uses
SepApart(sep) ==
  /\ sep # <<>>
  /\ \A i \in 1..Len(sep) :
        /\ ~IsDigit(sep[i])
        /\ sep[i] \notin {".", "/", "t", "l", "p", "v"}

\* C7 as amended: the same, for a separator that is not empty and shares no
\* character with the labels, the decimal literals and "/".
C7_ParseRecoversAnglesSepApart ==
  (p_out # NoParse /\ SepApart(p_in.sep)) =>
     (p_out.err = "none" /\ p_out.val = Denoted(p_in))

C7_Witness ==
  /\ p_out.err = "none"
  /\ p_in.dir = SubDir
  /\ p_in.sep = Underscore
  /\ p_in.lits = T1b
  /\ p_out.val = <<<<2025, 2>>, <<10, 0>>, <<115, 1>>, <<0, 0>>>>

(* C8 *)

\* C8: once construction has finished, no angles_to_image call, failed or
\* not, changes angles_set, the mapping or the archive's entries.
C8_IndexImmutable ==
  [][ result = "ok" =>
        /\ angles_vs_filepath_dict' = angles_vs_filepath_dict
        /\ angles_set' = angles_set
        /\ namelist' = namelist
        /\ result' = "ok" ]_vars

C8_Witness ==
  /\ ncalls = 2
  /\ nopened = 1
  /\ last.err = "ValueError"
  /\ angles_set # {}

(* C9 *)

\* C9: the suffix removed before splitting is as long as file_ext, so the
\* tokens of a retained entry are its four labelled values and the fourth is
\* pv followed by its value only.
C9_SuffixRemovedIsExtension ==
  \A i \in 1..Len(parsed) :
    \A d \in RetainedDescs :
      ( /\ Render(d) = parsed[i].args[1]
        /\ d.sep = angle_sep /\ d.ext = file_ext /\ FourFloats(d)
        /\ parsed[i].out.err \in {"none", "ValueError"} )
      => parsed[i].out.angles = Tokens(d)

(* C10 *)

\* C10: a retained name whose first four tokens do not carry the labels tl,
\* pl, tv, pv in this order is not indexed: construction fails with
\* ValueError.
C10_OtherLabelsRaiseValueError ==
  (Done /\ \E d \in RetainedDescs : Encoded(d) /\ FourFloats(d) /\ d.labs # Labels)
     => result = "ValueError"

\* C10 as amended: the first two characters of each of the first four tokens
\* are dropped without being compared with the labels, so a retained name of
\* four tokens, each two characters and a float literal, is parsed to the
\* values in the order read, whatever the two characters are, and on success
\* is indexed under them.
C10_LabelsNotCompared ==
  Done =>
     /\ \A i \in 1..Len(parsed) :
          \A d \in RetainedDescs :
            ( /\ Render(d) = parsed[i].args[1]
              /\ Len(parsed[i].args) = 2
              /\ Encoded(d) /\ FourFloats(d) )
            => /\ parsed[i].out.err = "none"
               /\ parsed[i].out.val = Denoted(d)
     /\ result = "ok" =>
          \A d \in RetainedDescs :
            (Encoded(d) /\ FourFloats(d)) => DictGet(angles_vs_filepath_dict, Denoted(d)) = Render(d)

C10_Witness ==
  /\ result = "ok"
  /\ \E d \in RetainedDescs :
        /\ d.labs = <<PL, TL, TV, PV>>
        /\ DictGet(angles_vs_filepath_dict, <<<<10, 0>>, <<2025, 2>>, <<115, 1>>, <<0, 0>>>>) = Render(d)

=============================================================================
